---------------------------- MODULE Spec2Model ----------------------------
(***************************************************************************)
(* The garbage collector of f2fs (fs/f2fs/gc.c): victim selection, the     *)
(* node and data evacuators, the f2fs_gc orchestrator and the background   *)
(* worker, as a state machine.                                             *)
(*                                                                         *)
(* Six specifications share the variables:                                 *)
(*   SpecVictim  get_victim_by_default called in any order with any        *)
(*               gc_type and type, next to the allocator and the writer;   *)
(*   Spec        the background worker and a foreground caller running     *)
(*               f2fs_gc, entry by entry through the evacuators;           *)
(*   SpecCost    the cost-benefit arithmetic of get_cb_cost over every     *)
(*               utilisation and age;                                      *)
(*   SpecWorker  the loop of gc_thread_func, tick by tick, with its        *)
(*               f2fs_gc, a foreground holder of gc_mutex and stop         *)
(*               requests;                                                 *)
(*   SpecBidx    start_bidx_of_node over every node offset of a file;      *)
(*   SpecThread  start_gc_thread and stop_gc_thread in any order, with     *)
(*               every outcome of kmalloc and kthread_run.                 *)
(***************************************************************************)
EXTENDS Integers, Sequences, FiniteSets, TLC

----------------------------------------------------------------------------
(* Geometry of the mounted volume (fields of sbi), at a small size.        *)

TOTAL_SEGS == 4

log_blocks_per_seg == 1

\* TLC integers are 32-bit signed, so UINT_MAX is represented by the largest
\* of them; every cost-benefit cost is UINT_MAX minus a benefit of at most
\* 10000, so every comparison of costs is the one the code makes.
UINT_MAX == 2147483647

\* bound on the candidates counted by one scan (gc.h), scaled to TOTAL_SEGS
MAX_VICTIM_SEARCH == 1

(* Bounds of the model.                                                    *)
MaxLogSegsPerSec == 1
MaxMtime == 2
MaxAllocs == 1
MaxWrites == 1
MaxCalls == 1
MaxNGC == 1
MaxFreeSecs == 2
MaxPressures == 1
MaxEvents == 1

NULL_SEGNO == -1

RECURSIVE Pow2(_)
Pow2(n) == IF n = 0 THEN 1 ELSE 2 * Pow2(n - 1)

Segs == 0 .. (TOTAL_SEGS - 1)
blocks_per_seg == Pow2(log_blocks_per_seg)
Offs == 0 .. (blocks_per_seg - 1)

GcTypes == {"BG_GC", "FG_GC"}
GcModes == {"GC_CB", "GC_GREEDY"}
SumTypes == {"SUM_TYPE_NODE", "SUM_TYPE_DATA"}
NO_CHECK_TYPE == "NO_CHECK_TYPE"
\* the type argument of get_victim: NO_CHECK_TYPE, or the SSR form of a type
SsrTypes == {"SSR_NODE", "SSR_DATA"}

VARIABLES
    log_segs_per_sec,   \* sbi->log_segs_per_sec
    sum_type,           \* footer type of each segment's summary block
    cur_valid_map,      \* seg_entry->cur_valid_map, the set of valid offsets
    ckpt_valid_blocks,  \* seg_entry->ckpt_valid_blocks
    mtime,              \* seg_entry->mtime
    min_mtime,          \* sit_i->min_mtime
    max_mtime,          \* sit_i->max_mtime
    dirty_segmap,       \* dirty_i->dirty_segmap[DIRTY], the set of its bits
    victim_segmap,      \* dirty_i->victim_segmap[BG_GC], [FG_GC]
    last_victim,        \* sbi->last_victim[gc_mode]
    curseg,             \* the segments open for append (CURSEG)
    gv,                 \* the last get_victim call and what it returned
    allocs,             \* segments the allocator has opened
    writes,             \* blocks the writer has overwritten or deleted
    blkaddr,            \* the block address the parent node (data) or the NAT
                        \* (node) holds for the block summarised at a slot
    nat_version,        \* the NAT version of the node a slot's summary names
    page_dirty,         \* slots whose page GC dirtied and the writer has not
                        \* written yet
    free_secs,          \* free_sections(sbi)
    need_cp,            \* should_do_checkpoint(sbi)
    ms_active,          \* sbi->sb->s_flags & MS_ACTIVE
    gc_mutex,           \* sbi->gc_mutex: "free" or the thread holding it
    cp_mutex,           \* sbi->cp_mutex: "free" or the thread holding it
    last_gc_status,     \* sbi->last_gc_status
    th,                 \* per thread: the position in f2fs_gc and its locals
    last_copy,          \* the block the last iteration of an evacuator copied
    calls,              \* f2fs_gc calls each thread has started
    pressures,          \* times checkpoint pressure has appeared
    locks_held,         \* sit_i->sentry_lock, dirty_i->seglist_lock: which of
                        \* them each thread holds
    lock_order,         \* whether every mutex so far was taken in the order
                        \* gc_mutex, cp_mutex, sentry_lock, seglist_lock
    cb,                 \* the locals u and age of get_cb_cost and what it
                        \* returns for them
    wk,                 \* the background worker: its position in
                        \* gc_thread_func, wait_ms and what its last tick read
    nb,                 \* a node offset and what start_bidx_of_node returns
                        \* for it
    kt                  \* sbi->gc_thread, the f2fs_gc_kthread structures
                        \* allocated so far and the worker tasks

fsvars == <<log_segs_per_sec, sum_type, cur_valid_map, ckpt_valid_blocks, mtime,
            min_mtime, max_mtime, dirty_segmap, victim_segmap, last_victim,
            curseg, gv, allocs, writes>>

gcvars0 == <<blkaddr, nat_version, page_dirty, free_secs, need_cp, ms_active,
             gc_mutex, cp_mutex, last_gc_status, th, last_copy, calls, pressures,
             locks_held, lock_order>>

\* the variables only one specification moves
restvars == <<wk, nb, kt>>

gcvars == <<gcvars0, cb, restvars>>

vars == <<fsvars, gcvars>>

----------------------------------------------------------------------------
(* Segments, sections and the SIT.                                         *)

segs_per_sec == Pow2(log_segs_per_sec)

GET_SECNO(segno) == segno \div segs_per_sec

SecStart(segno) == (segno \div segs_per_sec) * segs_per_sec

SecSegs(segno) == SecStart(segno) .. (SecStart(segno) + segs_per_sec - 1)

IS_CURSEC(secno) == \E c \in curseg : GET_SECNO(c) = secno

RECURSIVE SumOver(_, _)
SumOver(f, S) ==
    IF S = {} THEN 0
    ELSE LET x == CHOOSE y \in S : TRUE IN f[x] + SumOver(f, S \ {x})

valid_blocks == [s \in Segs |-> Cardinality(cur_valid_map[s])]

\* get_valid_blocks(sbi, segno, log_segs_per_sec): the valid blocks of the
\* section of segno
get_valid_blocks(segno) == SumOver(valid_blocks, SecSegs(segno))

\* dirty_i->dirty_segmap[t] for a segment type t (a segment is in one bucket)
dirty_segmap_of(t) == {s \in dirty_segmap : sum_type[s] = t}

find_next_bit(map, size, offset) ==
    IF \E b \in map : b >= offset /\ b < size
    THEN CHOOSE b \in map : b >= offset /\ b < size
                            /\ \A c \in map : (c >= offset /\ c < size) => b <= c
    ELSE size

----------------------------------------------------------------------------
(* Victim selection.                                                       *)

select_gc_type(gc_type) == IF gc_type = "BG_GC" THEN "GC_CB" ELSE "GC_GREEDY"

IS_SSR_TYPE(type) == type \in SsrTypes

GET_SSR_TYPE(type) == IF type = "SSR_NODE" THEN "SUM_TYPE_NODE" ELSE "SUM_TYPE_DATA"

select_policy(gc_type, type) ==
    IF IS_SSR_TYPE(type)
    THEN [alloc_mode |-> "SSR", gc_mode |-> "GC_GREEDY", type |-> GET_SSR_TYPE(type),
          dirty_segmap |-> dirty_segmap_of(GET_SSR_TYPE(type)), log_ofs_unit |-> 0,
          offset |-> last_victim["GC_GREEDY"]]
    ELSE [alloc_mode |-> "LFS", gc_mode |-> select_gc_type(gc_type), type |-> "0",
          dirty_segmap |-> dirty_segmap, log_ofs_unit |-> log_segs_per_sec,
          offset |-> last_victim[select_gc_type(gc_type)]]

get_max_cost(p) ==
    IF p.gc_mode = "GC_GREEDY" THEN Pow2(log_blocks_per_seg + p.log_ofs_unit)
    ELSE IF p.gc_mode = "GC_CB" THEN UINT_MAX
    ELSE 0

\* check_bg_victims without clear_bit
check_bg_victims_keep_bit ==
    LET segno == find_next_bit(victim_segmap["BG_GC"], TOTAL_SEGS, 0) IN
    [segno |-> IF segno < TOTAL_SEGS THEN segno ELSE NULL_SEGNO,
     victim_segmap |-> victim_segmap]

\* check_bg_victims: the lowest bit of victim_segmap[BG_GC], cleared
check_bg_victims ==
    LET segno == find_next_bit(victim_segmap["BG_GC"], TOTAL_SEGS, 0) IN
    IF segno < TOTAL_SEGS
    THEN [segno |-> segno,
          victim_segmap |-> [victim_segmap EXCEPT !["BG_GC"] = @ \ {segno}]]
    ELSE [segno |-> NULL_SEGNO, victim_segmap |-> victim_segmap]

\* the benefit get_cb_cost takes from UINT_MAX, by a remainder instead of
\* the quotient
cb_benefit_remainder(u, age) == (100 * (100 - u) * age) % (100 + u)

\* the benefit get_cb_cost takes from UINT_MAX
cb_benefit(u, age) == (100 * (100 - u) * age) \div (100 + u)

\* the return statement of get_cb_cost
cb_cost(u, age) == UINT_MAX - cb_benefit(u, age)

\* the utilisation and the average mtime get_cb_cost computes for a section
cb_u(segno) ==
    ((get_valid_blocks(segno) \div segs_per_sec) * 100) \div blocks_per_seg

cb_mtime(segno) == SumOver(mtime, SecSegs(segno)) \div segs_per_sec

\* get_cb_cost with sit_i->min_mtime following every observation
get_cb_cost_min_follows(segno, lo, hi) ==
    LET m == cb_mtime(segno)
        u == cb_u(segno)
        lo1 == m
        hi1 == IF m > hi THEN m ELSE hi
        age == IF hi1 # lo1 THEN 100 - ((100 * (m - lo1)) \div (hi1 - lo1)) ELSE 0
    IN [cost |-> cb_cost(u, age), min_mtime |-> lo1, max_mtime |-> hi1,
        mtime |-> m, u |-> u, age |-> age]

\* get_cb_cost with sit_i->min_mtime = lo and sit_i->max_mtime = hi on entry:
\* the cost, the widened pair it leaves in sit_i, and its locals
get_cb_cost(segno, lo, hi) ==
    LET m == cb_mtime(segno)
        u == cb_u(segno)
        lo1 == IF m < lo THEN m ELSE lo
        hi1 == IF m > hi THEN m ELSE hi
        age == IF hi1 # lo1 THEN 100 - ((100 * (m - lo1)) \div (hi1 - lo1)) ELSE 0
    IN [cost |-> cb_cost(u, age), min_mtime |-> lo1, max_mtime |-> hi1,
        mtime |-> m, u |-> u, age |-> age]

get_gc_cost(segno, p, lo, hi) ==
    IF p.alloc_mode = "SSR"
    THEN [cost |-> ckpt_valid_blocks[segno], min_mtime |-> lo, max_mtime |-> hi]
    ELSE IF p.gc_mode = "GC_GREEDY"
    THEN [cost |-> get_valid_blocks(segno), min_mtime |-> lo, max_mtime |-> hi]
    ELSE get_cb_cost(segno, lo, hi)

\* the bits [result, result + 2^log_ofs_unit) set in one victim map
set_victim_bits_first_only(map, result, log_ofs_unit) == map \cup {result}

set_victim_bits(map, result, log_ofs_unit) ==
    map \cup (result .. (result + Pow2(log_ofs_unit) - 1))

\* the minimum kept also for a cost equal to min_cost
keep_min_or_equal(st, segno, cost) ==
    IF st.min_cost >= cost
    THEN [st EXCEPT !.min_segno = segno, !.min_cost = cost]
    ELSE st

\* if (p.min_cost > cost) { p.min_segno = segno; p.min_cost = cost; }
keep_min(st, segno, cost) ==
    IF st.min_cost > cost
    THEN [st EXCEPT !.min_segno = segno, !.min_cost = cost]
    ELSE st

\* the while (1) loop of get_victim_by_default; vmap is victim_segmap as
\* check_bg_victims left it; st.observed collects what get_cb_cost computed
\* and returned, st.examined the segments get_gc_cost was called for, in
\* order, with their cost
RECURSIVE victim_scan(_, _, _, _)
victim_scan(p, gc_type, vmap, st) ==
    LET segno == find_next_bit(p.dirty_segmap, TOTAL_SEGS, st.offset)
        unit == Pow2(p.log_ofs_unit)
    IN
    IF segno >= TOTAL_SEGS
    THEN IF st.last_victim[p.gc_mode] # 0
         THEN victim_scan(p, gc_type, vmap,
                  [st EXCEPT !.last_victim[p.gc_mode] = 0, !.offset = 0])
         ELSE st
    ELSE
    LET st1 == [st EXCEPT !.offset = ((segno \div unit) * unit) + unit] IN
    IF segno \in vmap["FG_GC"] THEN victim_scan(p, gc_type, vmap, st1)
    ELSE IF gc_type = "BG_GC" /\ segno \in vmap["BG_GC"]
    THEN victim_scan(p, gc_type, vmap, st1)
    ELSE IF IS_CURSEC(GET_SECNO(segno)) THEN victim_scan(p, gc_type, vmap, st1)
    ELSE
    LET c == get_gc_cost(segno, p, st1.min_mtime, st1.max_mtime)
        st2 == keep_min(
                   [st1 EXCEPT !.min_mtime = c.min_mtime, !.max_mtime = c.max_mtime,
                               !.observed = IF p.alloc_mode = "LFS" /\ p.gc_mode = "GC_CB"
                                            THEN @ \cup {c} ELSE @,
                               !.examined = Append(@, [segno |-> segno,
                                                       cost |-> c.cost])],
                   segno, c.cost)
    IN
    IF c.cost = get_max_cost(p) THEN victim_scan(p, gc_type, vmap, st2)
    ELSE IF st2.nsearched >= MAX_VICTIM_SEARCH
    THEN [st2 EXCEPT !.nsearched = @ + 1, !.last_victim[p.gc_mode] = segno]
    ELSE victim_scan(p, gc_type, vmap, [st2 EXCEPT !.nsearched = @ + 1])

\* the got_it label of get_victim_by_default: the result aligned to its
\* unit and, for LFS, the victim bits set; bg is what check_bg_victims left,
\* st is what the scan left
victim_got_it(p, gc_type, bg, got_it, st) ==
    LET unit == Pow2(p.log_ofs_unit)
        found == st.min_segno # NULL_SEGNO
        result == IF found THEN (st.min_segno \div unit) * unit ELSE NULL_SEGNO
    IN [ret |-> IF found THEN 1 ELSE 0,
        result |-> result,
        min_segno |-> st.min_segno,
        min_cost |-> st.min_cost,
        path |-> IF got_it THEN "fast" ELSE "scan",
        covered |-> IF found THEN result .. (result + unit - 1) ELSE {},
        alloc_mode |-> p.alloc_mode,
        gc_mode |-> p.gc_mode,
        victim_segmap |->
            IF found /\ p.alloc_mode = "LFS"
            THEN [bg.victim_segmap EXCEPT
                    ![gc_type] = set_victim_bits(@, result, p.log_ofs_unit)]
            ELSE bg.victim_segmap,
        last_victim |-> st.last_victim,
        min_mtime |-> st.min_mtime,
        max_mtime |-> st.max_mtime,
        nsearched |-> st.nsearched,
        observed |-> st.observed,
        examined |-> st.examined,
        max_cost |-> get_max_cost(p),
        \* dirty_i->dirty_segmap[DIRTY] and, with it, the bitmap of every type:
        \* the function has no clear_bit on them
        dirty_segmap |-> dirty_segmap]

victim_search(p, gc_type, bg) ==
    LET st0 == [offset |-> p.offset, nsearched |-> 0, min_segno |-> NULL_SEGNO,
                min_cost |-> get_max_cost(p), last_victim |-> last_victim,
                min_mtime |-> min_mtime, max_mtime |-> max_mtime, observed |-> {},
                examined |-> <<>>]
    IN IF bg.segno # NULL_SEGNO
       THEN victim_got_it(p, gc_type, bg, TRUE, [st0 EXCEPT !.min_segno = bg.segno])
       ELSE victim_got_it(p, gc_type, bg, FALSE,
                          victim_scan(p, gc_type, bg.victim_segmap, st0))

\* get_victim_by_default(sbi, &result, gc_type, type): what it returns and
\* the values it leaves in victim_segmap, last_victim and sit_i
get_victim_by_default(gc_type, type) ==
    victim_search(select_policy(gc_type, type), gc_type,
                  IF (~IS_SSR_TYPE(type)) /\ gc_type = "FG_GC"
                  THEN check_bg_victims
                  ELSE [segno |-> NULL_SEGNO, victim_segmap |-> victim_segmap])

----------------------------------------------------------------------------
(* The dirty seglist as the segment manager keeps it.                      *)

\* locate_dirty_segment: a segment that is not current is dirty while it
\* holds both valid and invalid blocks; one with no valid block left is freed
locate_dirty_segment(dmap, vmap, cs, segno) ==
    IF segno \in cs THEN dmap
    ELSE IF vmap[segno] = {} THEN dmap \ {segno}
    ELSE IF vmap[segno] # Offs THEN dmap \cup {segno}
    ELSE dmap

NoCall == [op |-> "none"]

CallRecord(gc_type, type, r) ==
    [op |-> "get_victim", gc_type |-> gc_type, type |-> type,
     ret |-> r.ret, result |-> r.result, path |-> r.path,
     alloc_mode |-> r.alloc_mode,
     \* taken when the call returns: whether a returned segno had its bit in
     \* victim_segmap[FG_GC] on entry, whether its section is a current one
     fg_before |-> r.ret = 1 /\ r.covered \cap victim_segmap["FG_GC"] # {},
     cursec |-> r.ret = 1 /\ IS_CURSEC(GET_SECNO(r.result)),
     \* whether dirty_segmap[DIRTY] had no bit set during the call
     dirty_empty |-> dirty_segmap = {},
     \* victim_segmap[BG_GC] on entry, and on entry of the call before when
     \* that was a BG_GC call of the collector that returned a victim
     bg_entry |-> victim_segmap["BG_GC"],
     after_bg |-> gv.op = "get_victim" /\ gv.gc_type = "BG_GC"
                  /\ gv.type = NO_CHECK_TYPE /\ gv.ret = 1,
     bg_before_pair |-> IF gv.op = "get_victim" THEN gv.bg_entry ELSE {},
     \* what get_cb_cost computed in the call, and whether it widened the pair
     observed |-> r.observed,
     \* the candidates the scan counted in nsearched
     nsearched |-> r.nsearched,
     \* the segments the scan computed a cost for, in scan order, and the
     \* minimum it kept
     examined |-> r.examined,
     min_segno |-> r.min_segno,
     min_cost |-> r.min_cost,
     max_cost |-> r.max_cost,
     \* the dirty seglist and the victim maps on entry and at the return
     dirty_entry |-> dirty_segmap,
     dirty_exit |-> r.dirty_segmap,
     victim_entry |-> victim_segmap,
     victim_exit |-> r.victim_segmap,
     widened |-> r.min_mtime < min_mtime \/ r.max_mtime > max_mtime]

----------------------------------------------------------------------------
(* Block addresses, summaries and the pages GC dirtied.                    *)

\* first block address of the main area
MAIN_BLKADDR == 1

\* what a parent holds for a block that is not at the slot any more:
\* NULL_ADDR, or an address outside the segments of the model
ELSEWHERE == 0

START_BLOCK(segno) == MAIN_BLKADDR + segno * blocks_per_seg

\* the summary entry of slot (segno, off): a node segment holds one node per
\* slot, the blocks of a data segment belong to one dnode
sum_nid(segno, off) ==
    IF sum_type[segno] = "SUM_TYPE_NODE" THEN segno * blocks_per_seg + off
    ELSE segno

sum_version == 0

\* dni.ino, the inode that owns node nid
node_ino(nid) == nid \div 2

Inos == {node_ino(s) : s \in Segs}

NULL_INODE == -1

AtSlot(segno, off) == blkaddr[segno][off] = START_BLOCK(segno) + off

\* the writer writes the pages of the slots in S: a block still at its slot
\* moves to a current segment, its bit is cleared, its parent is updated and
\* its segment is filed again
moved_slots(S) == {sl \in S : AtSlot(sl[1], sl[2])}

valid_map_after(S) ==
    [s \in Segs |-> cur_valid_map[s] \ {o \in Offs : <<s, o>> \in moved_slots(S)}]

blkaddr_after(S) ==
    [s \in Segs |-> [o \in Offs |->
        IF <<s, o>> \in moved_slots(S) THEN ELSEWHERE ELSE blkaddr[s][o]]]

dirty_segmap_after(S) ==
    {s \in Segs :
        IF \E o \in Offs : <<s, o>> \in moved_slots(S)
        THEN s \in locate_dirty_segment(dirty_segmap, valid_map_after(S), curseg, s)
        ELSE s \in dirty_segmap}

write_pages(S) ==
    /\ cur_valid_map' = valid_map_after(S)
    /\ blkaddr' = blkaddr_after(S)
    /\ dirty_segmap' = dirty_segmap_after(S)
    /\ page_dirty' = page_dirty \ S

----------------------------------------------------------------------------
(* The inode list of one f2fs_gc call, and the validity checks.            *)

find_gc_inode(ino, ilist) ==
    IF \E k \in 1 .. Len(ilist) : ilist[k] = ino THEN ino ELSE NULL_INODE

\* add_gc_inode without the iput of an inode that is already listed
add_gc_inode_keep_ref(inode, r) ==
    IF \E k \in 1 .. Len(r.ilist) : r.ilist[k] = inode
    THEN [r EXCEPT !.dup = TRUE]
    ELSE [r EXCEPT !.ilist = Append(@, inode)]

\* add_gc_inode(inode, ilist) on the locals r of a call; held counts the
\* references of each inode the call has got and not put
add_gc_inode(inode, r) ==
    IF \E k \in 1 .. Len(r.ilist) : r.ilist[k] = inode
    THEN [r EXCEPT !.held[inode] = @ - 1, !.dup = TRUE]
    ELSE [r EXCEPT !.ilist = Append(@, inode)]

RECURSIVE put_gc_inode(_)
put_gc_inode(r) ==
    IF r.ilist = <<>> THEN r
    ELSE put_gc_inode([r EXCEPT !.held[Head(r.ilist)] = @ - 1, !.ilist = Tail(@)])

check_valid_map(segno, off) ==
    IF off \in cur_valid_map[segno] THEN "GC_OK" ELSE "GC_NEXT"

\* check_dnode(sbi, sum, &dni, START_BLOCK(segno) + off, &nofs) for the entry
\* of slot (segno, off); page_ok: get_node_page returned the node page
check_dnode(segno, off, page_ok) ==
    IF ~page_ok THEN "GC_NEXT"
    ELSE IF sum_version # nat_version[sum_nid(segno, off)] THEN "GC_NEXT"
    ELSE IF blkaddr[segno][off] # START_BLOCK(segno) + off THEN "GC_NEXT"
    ELSE "GC_OK"

----------------------------------------------------------------------------
(* Threads: the background worker and a foreground caller.                 *)

Threads == {"bg", "fg"}

reserved_sections == 1

has_not_enough_free_secs == free_secs <= reserved_sections

IdleThread ==
    [pc |-> "idle", nGC |-> 0, gc_type |-> "BG_GC", nfree |-> 0,
     old_free_secs |-> 0, gc_status |-> "GC_NONE", segno |-> 0, i |-> 0,
     phase |-> 0, off |-> 0, sub |-> "A", ilist |-> <<>>,
     held |-> [n \in Inos |-> 0],
     \* what the call has done so far
     evacuated |-> {}, secs_done |-> 0, unlocks |-> 0, blocked |-> "none",
     unclean |-> NULL_SEGNO, after_unclean |-> "none", repeat |-> FALSE,
     exit |-> "none", gain |-> 0, dup |-> FALSE, reclaimed |-> FALSE,
     \* dirty_segmap[DIRTY] when the call was entered
     entry_dirty |-> {}]

\* the locals of f2fs_gc(sbi, nGC) on entry, INIT_LIST_HEAD(&ilist) done
NewCall(nGC) ==
    [IdleThread EXCEPT !.pc = "gc_more", !.nGC = nGC, !.entry_dirty = dirty_segmap]

NoCopy == [op |-> "none"]

\* the phases of an evacuator: initial and not for gc_node_segment, 0 .. 3
\* for gc_data_segment
NPhases(type) == IF type = "SUM_TYPE_NODE" THEN 2 ELSE 4

\* continue: the next entry, the next phase, or the end of the loops
Advance(r, type) ==
    IF r.off + 1 < blocks_per_seg THEN [r EXCEPT !.off = @ + 1, !.sub = "A"]
    ELSE IF r.phase + 1 < NPhases(type)
    THEN [r EXCEPT !.phase = @ + 1, !.off = 0, !.sub = "A"]
    ELSE [r EXCEPT !.pc = "evac_end"]

\* the for loop of f2fs_gc with put_gc_inode after every do_garbage_collect
AfterGC_put_gc_inode(r, status) ==
    IF status # "GC_DONE"
    THEN [put_gc_inode(r) EXCEPT !.gc_status = status, !.pc = "stop",
                   !.unclean = IF status = "GC_BLOCKED" THEN r.segno ELSE @]
    ELSE IF r.i + 1 < segs_per_sec
    THEN [put_gc_inode(r) EXCEPT !.gc_status = status, !.nfree = @ + 1,
                   !.i = @ + 1, !.pc = "segment", !.reclaimed = TRUE]
    ELSE [put_gc_inode(r) EXCEPT !.gc_status = status, !.nfree = @ + 1,
                   !.i = @ + 1, !.pc = "loop", !.secs_done = @ + 1,
                   !.reclaimed = TRUE]

\* the for loop of f2fs_gc after do_garbage_collect returned status
AfterGC(r, status) ==
    IF status # "GC_DONE"
    THEN [r EXCEPT !.gc_status = status, !.pc = "stop",
                   !.unclean = IF status = "GC_BLOCKED" THEN r.segno ELSE @]
    ELSE IF r.i + 1 < segs_per_sec
    THEN [r EXCEPT !.gc_status = status, !.nfree = @ + 1, !.i = @ + 1,
                   !.pc = "segment", !.reclaimed = TRUE]
    ELSE [r EXCEPT !.gc_status = status, !.nfree = @ + 1, !.i = @ + 1,
                   !.pc = "loop", !.secs_done = @ + 1, !.reclaimed = TRUE]

NoCost == [op |-> "none"]

NoWorker == [pc |-> "none"]

NoNode == [op |-> "none"]

NoThread == [op |-> "none"]

\* the variables of the other specifications, at rest
AtRest == wk = NoWorker /\ nb = NoNode /\ kt = NoThread

\* the collector at rest on a volume whose parents point at every valid block
GcIdle ==
    /\ blkaddr = [s \in Segs |-> [o \in Offs |->
           IF o \in cur_valid_map[s] THEN START_BLOCK(s) + o ELSE ELSEWHERE]]
    /\ nat_version = [s \in Segs |-> sum_version]
    /\ page_dirty = {}
    /\ need_cp = FALSE
    /\ ms_active = TRUE
    /\ gc_mutex = "free"
    /\ cp_mutex = "free"
    /\ last_gc_status = "GC_NONE"
    /\ th = [t \in Threads |-> IdleThread]
    /\ last_copy = NoCopy
    /\ calls = [t \in Threads |-> 0]
    /\ pressures = 0
    /\ locks_held = [t \in Threads |-> {}]
    /\ lock_order = TRUE

----------------------------------------------------------------------------
(* SpecVictim: the victim selector under every order of calls.             *)

\* the mtime of the segments at mount: written at times spread over
\* 0 .. MaxMtime
MountMtime == [s \in Segs |-> s % (MaxMtime + 1)]

\* sit_i->min_mtime and max_mtime at mount: the oldest segment and the time
\* of the mount, which is the newest mtime or, with the clock set back, the
\* oldest
MountMinMax == {<<0, MaxMtime>>, <<0, 0>>}

InitFs ==
    /\ log_segs_per_sec \in 0 .. MaxLogSegsPerSec
    /\ sum_type = [s \in Segs |-> IF 2 * s < TOTAL_SEGS THEN "SUM_TYPE_DATA"
                                  ELSE "SUM_TYPE_NODE"]
    /\ cur_valid_map \in [Segs -> {{0}, Offs}]
    /\ ckpt_valid_blocks = [s \in Segs |-> Cardinality(cur_valid_map[s])]
    /\ mtime = MountMtime
    /\ \E mm \in MountMinMax : min_mtime = mm[1] /\ max_mtime = mm[2]
    /\ \E c \in Segs : curseg = {c}
    /\ dirty_segmap = {s \in Segs : s \notin curseg /\ cur_valid_map[s] # Offs}
    /\ victim_segmap = [t \in GcTypes |-> {}]
    /\ last_victim = [m \in GcModes |-> 0]
    /\ gv = NoCall
    /\ allocs = 0
    /\ writes = 0
    /\ free_secs = MaxFreeSecs
    /\ GcIdle
    /\ cb = NoCost
    /\ AtRest

\* __get_victim(sbi, &segno, gc_type, type), under sentry_lock and
\* seglist_lock
GetVictim(gc_type, type) ==
    \E r \in {get_victim_by_default(gc_type, type)} :
    /\ victim_segmap' = r.victim_segmap
    /\ last_victim' = r.last_victim
    /\ min_mtime' = r.min_mtime
    /\ max_mtime' = r.max_mtime
    /\ dirty_segmap' = r.dirty_segmap
    /\ gv' = CallRecord(gc_type, type, r)
    /\ UNCHANGED <<log_segs_per_sec, sum_type, cur_valid_map, ckpt_valid_blocks,
                   mtime, curseg, allocs, writes, gcvars>>

GetVictimGC == \E gc_type \in GcTypes : GetVictim(gc_type, NO_CHECK_TYPE)

GetVictimSSR ==
    \E gc_type \in GcTypes, type \in SsrTypes : GetVictim(gc_type, type)

\* the allocator reuses the segment SSR selection returned: it becomes the
\* current segment and leaves the dirty seglist; the segment it replaces is
\* filed by its valid blocks
ChangeCurseg ==
    /\ allocs < MaxAllocs
    /\ gv.op = "get_victim" /\ gv.alloc_mode = "SSR" /\ gv.ret = 1
    /\ gv.result \in dirty_segmap
    /\ curseg' = {gv.result}
    /\ dirty_segmap' = LET d == dirty_segmap \ {gv.result} IN
           {s \in Segs : s \in d
                \/ (s \in curseg /\ s # gv.result
                    /\ cur_valid_map[s] # {} /\ cur_valid_map[s] # Offs)}
    /\ gv' = NoCall
    /\ allocs' = allocs + 1
    /\ UNCHANGED <<log_segs_per_sec, sum_type, cur_valid_map, ckpt_valid_blocks,
                   mtime, min_mtime, max_mtime, victim_segmap, last_victim, writes,
                   gcvars>>

\* a section is free when none of its segments holds a valid block, is dirty
\* or is current
FreeSection(segno) ==
    \A s \in SecSegs(segno) :
        cur_valid_map[s] = {} /\ s \notin dirty_segmap /\ s \notin curseg

\* the allocator opens the first segment of a free section (LFS)
NewCurseg ==
    /\ allocs < MaxAllocs
    /\ \E n \in Segs :
        /\ n = SecStart(n)
        /\ FreeSection(n)
        /\ curseg' = {n}
        /\ dirty_segmap' = dirty_segmap \cup
               {s \in curseg : cur_valid_map[s] # {} /\ cur_valid_map[s] # Offs}
    /\ allocs' = allocs + 1
    /\ UNCHANGED <<log_segs_per_sec, sum_type, cur_valid_map, ckpt_valid_blocks,
                   mtime, min_mtime, max_mtime, victim_segmap, last_victim, gv,
                   writes, gcvars>>

\* a block of a segment is overwritten or deleted: its bit is cleared
invalidate_block(segno, off) ==
    LET vmap == [cur_valid_map EXCEPT ![segno] = @ \ {off}] IN
    /\ cur_valid_map' = vmap
    /\ dirty_segmap' = locate_dirty_segment(dirty_segmap, vmap, curseg, segno)
    /\ blkaddr' = [blkaddr EXCEPT ![segno][off] = ELSEWHERE]

\* the writer overwrites or deletes the last valid block of segment s
InvalidateIn(s) ==
    /\ writes < MaxWrites
    /\ cur_valid_map[s] # {}
    /\ invalidate_block(s, CHOOSE o \in cur_valid_map[s] :
                                \A q \in cur_valid_map[s] : q <= o)
    /\ writes' = writes + 1
    /\ UNCHANGED <<log_segs_per_sec, sum_type, ckpt_valid_blocks, mtime, min_mtime,
                   max_mtime, victim_segmap, last_victim, curseg, gv, allocs,
                   nat_version, page_dirty, free_secs, need_cp, ms_active,
                   gc_mutex, cp_mutex, last_gc_status, th, last_copy, calls,
                   pressures, locks_held, lock_order, cb, restvars>>

Invalidate == \E s \in Segs : InvalidateIn(s)

NextVictim ==
    \/ GetVictimGC
    \/ GetVictimSSR
    \/ ChangeCurseg
    \/ NewCurseg
    \/ Invalidate

SpecVictim == InitFs /\ [][NextVictim]_vars


----------------------------------------------------------------------------
(* f2fs_gc, step by step.                                                  *)

statics == <<log_segs_per_sec, sum_type, ckpt_valid_blocks, mtime, curseg, cb,
            restvars>>

blockvars == <<cur_valid_map, blkaddr, dirty_segmap, page_dirty>>

victimvars == <<victim_segmap, last_victim, min_mtime, max_mtime, gv>>

budgets == <<allocs, writes, calls, pressures>>

innerlocks == <<locks_held, lock_order>>

lockvars == <<gc_mutex, cp_mutex, innerlocks>>

pressure == <<free_secs, need_cp, ms_active, nat_version>>

\* the locals of a call that has returned are gone
Returned_to_idle ==
    [t \in Threads |-> IF th[t].pc = "ret" THEN IdleThread ELSE th[t]]

\* mutex_trylock(&sbi->gc_mutex) succeeds on a free mutex
mutex_trylock(m) == m = "free"

\* the mutexes a thread holds
Held(t) ==
    locks_held[t] \cup (IF gc_mutex = t THEN {"gc_mutex"} ELSE {})
                  \cup (IF cp_mutex = t THEN {"cp_mutex"} ELSE {})

mutex_lock(m) == [op |-> "lock", mutex |-> m]

mutex_unlock(m) == [op |-> "unlock", mutex |-> m]

\* the mutex calls of get_victim_by_default, in the order it makes them
get_victim_by_default_locks ==
    <<mutex_lock("seglist_lock"), mutex_unlock("seglist_lock")>>

\* __get_victim with seglist_lock taken outside sentry_lock
get_victim_locks_seglist_outside ==
    <<mutex_lock("seglist_lock"), mutex_lock("sentry_lock"),
      mutex_unlock("sentry_lock"), mutex_unlock("seglist_lock")>>

\* the mutex calls of __get_victim around and in v_ops->get_victim
get_victim_locks ==
    <<mutex_lock("sentry_lock")>> \o get_victim_by_default_locks
        \o <<mutex_unlock("sentry_lock")>>

\* the mutex calls of check_valid_map
check_valid_map_locks ==
    <<mutex_lock("sentry_lock"), mutex_unlock("sentry_lock")>>

\* the mutex calls of an evacuator that finds should_do_checkpoint true
block_locks == <<mutex_lock("cp_mutex")>>

\* the mutex calls of write_checkpoint(sbi, is_blocked, false)
write_checkpoint_locks(is_blocked) ==
    (IF is_blocked THEN <<>> ELSE <<mutex_lock("cp_mutex")>>)
        \o <<mutex_unlock("cp_mutex")>>

\* the place of a mutex in the acquisition order
LockRank(m) ==
    CASE m = "gc_mutex" -> 1
      [] m = "cp_mutex" -> 2
      [] m = "sentry_lock" -> 3
      [] m = "seglist_lock" -> 4

\* a thread holding the mutexes in st.held makes the calls of ops one after
\* the other: the mutexes it holds then, and whether every mutex_lock was of
\* a mutex inside all it held, seglist_lock under sentry_lock
RECURSIVE run_locks(_, _)
run_locks(st, ops) ==
    IF ops = <<>> THEN st
    ELSE LET c == Head(ops) IN
         IF c.op = "lock"
         THEN run_locks(
                  [held |-> st.held \cup {c.mutex},
                   ok |-> /\ st.ok
                          /\ \A h \in st.held : LockRank(h) < LockRank(c.mutex)
                          /\ c.mutex = "seglist_lock" => "sentry_lock" \in st.held],
                  Tail(ops))
         ELSE run_locks([st EXCEPT !.held = @ \ {c.mutex}], Tail(ops))

\* thread t makes the mutex calls of ops
Locking(t, ops) ==
    \E r \in {run_locks([held |-> Held(t), ok |-> lock_order], ops)} :
        /\ locks_held' = [locks_held EXCEPT
               ![t] = r.held \cap {"sentry_lock", "seglist_lock"}]
        /\ lock_order' = r.ok

\* gc_thread_func: the tick that reaches f2fs_gc(sbi, 1), the try-lock taken
BgEnter ==
    /\ th["bg"].pc \in {"idle", "ret"}
    /\ calls["bg"] < MaxCalls
    /\ mutex_trylock(gc_mutex)
    /\ gc_mutex' = "bg"
    /\ th' = [Returned_to_idle EXCEPT !["bg"] = NewCall(1)]
    /\ calls' = [calls EXCEPT !["bg"] = @ + 1]
    /\ Locking("bg", <<mutex_lock("gc_mutex")>>)
    /\ UNCHANGED <<statics, blockvars, victimvars, pressure, allocs, writes,
                   pressures, cp_mutex, last_gc_status, last_copy>>

\* a foreground caller takes gc_mutex and calls f2fs_gc(sbi, nGC)
FgEnter ==
    /\ th["fg"].pc \in {"idle", "ret"}
    /\ calls["fg"] < MaxCalls
    /\ gc_mutex = "free"
    /\ gc_mutex' = "fg"
    /\ \E nGC \in 0 .. MaxNGC : th' = [Returned_to_idle EXCEPT !["fg"] = NewCall(nGC)]
    /\ calls' = [calls EXCEPT !["fg"] = @ + 1]
    /\ Locking("fg", <<mutex_lock("gc_mutex")>>)
    /\ UNCHANGED <<statics, blockvars, victimvars, pressure, allocs, writes,
                   pressures, cp_mutex, last_gc_status, last_copy>>

\* gc_more: the start of a round
GcMore(t) ==
    /\ th[t].pc = "gc_more"
    /\ th' = [th EXCEPT ![t] =
           [@ EXCEPT !.nfree = 0, !.gc_status = "GC_NONE", !.secs_done = 0,
                     !.exit = "none", !.gain = 0, !.blocked = "none",
                     !.old_free_secs = IF has_not_enough_free_secs
                                       THEN reserved_sections ELSE free_secs,
                     !.pc = "loop"]]
    /\ UNCHANGED <<statics, blockvars, victimvars, pressure, budgets, lockvars,
                   last_gc_status, last_copy>>

\* what the call notes when the loop asks for a victim: the first answer
\* after an evacuation that ended blocked, and an answer it has evacuated
\* before
NoteVictim(r, v) ==
    [r EXCEPT
        !.after_unclean =
            IF r.unclean = NULL_SEGNO THEN @
            ELSE IF v.ret = 0 THEN "no_victim"
            ELSE IF v.result = r.unclean THEN "reselected" ELSE "other",
        !.unclean = NULL_SEGNO,
        !.repeat = v.ret = 1 /\ v.covered \subseteq r.evacuated]

\* one pass of while (sbi->sb->s_flags & MS_ACTIVE) up to the for loop
Loop(t) ==
    /\ th[t].pc = "loop"
    /\ LET r == th[t]
           gc_type == IF has_not_enough_free_secs THEN "FG_GC" ELSE r.gc_type
           cur_free_secs == free_secs + r.nfree
       IN
       IF ~ms_active
       THEN /\ th' = [th EXCEPT ![t] = [r EXCEPT !.pc = "stop"]]
            /\ UNCHANGED <<victimvars, innerlocks>>
       ELSE IF r.nGC < cur_free_secs - r.old_free_secs
       THEN /\ th' = [th EXCEPT ![t] =
                   [r EXCEPT !.gc_type = gc_type, !.pc = "stop",
                             !.exit = "success",
                             !.gain = free_secs + r.secs_done - r.old_free_secs]]
            /\ UNCHANGED <<victimvars, innerlocks>>
       ELSE \E v \in {get_victim_by_default(gc_type, NO_CHECK_TYPE)} :
            /\ Locking(t, get_victim_locks)
            /\ victim_segmap' = v.victim_segmap
            /\ last_victim' = v.last_victim
            /\ min_mtime' = v.min_mtime
            /\ max_mtime' = v.max_mtime
            /\ UNCHANGED gv
            /\ th' = [th EXCEPT ![t] =
                   IF v.ret = 0
                   THEN [NoteVictim(r, v) EXCEPT !.gc_type = gc_type, !.pc = "stop"]
                   ELSE [NoteVictim(r, v) EXCEPT !.gc_type = gc_type,
                             !.segno = v.result, !.i = 0, !.pc = "segment"]]
    /\ UNCHANGED <<statics, blockvars, pressure, budgets, gc_mutex, cp_mutex,
                   last_gc_status, last_copy>>

\* do_garbage_collect(sbi, segno + i, &ilist, gc_type) up to the evacuator
DoGarbageCollect(t) ==
    /\ th[t].pc = "segment"
    /\ \E sum_ok \in BOOLEAN :
        th' = [th EXCEPT ![t] =
            IF ~sum_ok THEN AfterGC(@, "GC_ERROR")
            ELSE [@ EXCEPT !.pc = "evac", !.phase = 0, !.off = 0, !.sub = "A",
                           !.evacuated = @ \cup {th[t].segno + th[t].i}]]
    /\ UNCHANGED <<statics, blockvars, victimvars, pressure, budgets, lockvars,
                   last_gc_status, last_copy>>

\* the head of one iteration of an evacuator: the checkpoint check, then
\* check_valid_map, then the readahead of the first phase
EvacCheck(t) ==
    /\ th[t].pc = "evac" /\ th[t].sub = "A"
    /\ LET r == th[t]
           segno == r.segno + r.i
       IN
       IF need_cp
       THEN /\ cp_mutex = "free"
            /\ cp_mutex' = t
            /\ Locking(t, block_locks)
            /\ th' = [th EXCEPT ![t] =
                   AfterGC([r EXCEPT !.blocked = "pending"], "GC_BLOCKED")]
       ELSE /\ UNCHANGED cp_mutex
            /\ Locking(t, check_valid_map_locks)
            /\ th' = [th EXCEPT ![t] =
                   IF check_valid_map(segno, r.off) = "GC_NEXT"
                   THEN Advance(r, sum_type[segno])
                   ELSE IF r.phase = 0 THEN Advance(r, sum_type[segno])
                   ELSE [r EXCEPT !.sub = "B"]]
    /\ last_copy' = NoCopy
    /\ UNCHANGED <<statics, blockvars, victimvars, pressure, budgets, gc_mutex,
                   last_gc_status>>

CopyRecord(kind, segno, off, gc_type) ==
    [op |-> "copy", kind |-> kind, gc_type |-> gc_type,
     \* taken when the block is copied
     valid |-> off \in cur_valid_map[segno],
     at_slot |-> AtSlot(segno, off)]

\* gc_node_segment, the rest of an iteration with initial = false
EvacNode(t) ==
    /\ th[t].pc = "evac" /\ th[t].sub = "B"
    /\ LET r == th[t]
           segno == r.segno + r.i
       IN
       /\ sum_type[segno] = "SUM_TYPE_NODE"
       /\ \E fetch \in {"error", "writeback", "ok"} :
           IF fetch = "ok"
           THEN /\ page_dirty' = page_dirty \cup {<<segno, r.off>>}
                /\ last_copy' = CopyRecord("node", segno, r.off, r.gc_type)
           ELSE UNCHANGED <<page_dirty, last_copy>>
       /\ th' = [th EXCEPT ![t] = Advance(r, sum_type[segno])]
    /\ UNCHANGED <<statics, cur_valid_map, blkaddr, dirty_segmap, victimvars,
                   pressure, budgets, lockvars, last_gc_status>>

\* gc_data_segment, the rest of an iteration with phase >= 1
EvacData(t) ==
    /\ th[t].pc = "evac" /\ th[t].sub = "B"
    /\ LET r == th[t]
           segno == r.segno + r.i
           ino == node_ino(sum_nid(segno, r.off))
           next == Advance(r, sum_type[segno])
       IN
       /\ sum_type[segno] = "SUM_TYPE_DATA"
       /\ \E fetch \in {"no_dnode", "no_inode", "no_page", "skip", "ok"} :
           IF check_dnode(segno, r.off, fetch # "no_dnode") = "GC_NEXT"
              \/ r.phase = 1
           THEN /\ th' = [th EXCEPT ![t] = next]
                /\ UNCHANGED <<blockvars, last_copy>>
           ELSE IF r.phase = 2
           THEN /\ th' = [th EXCEPT ![t] =
                       IF fetch = "no_inode" THEN next
                       ELSE IF fetch = "no_page"
                       THEN [next EXCEPT !.held[ino] = (@ + 1) - 1]
                       ELSE add_gc_inode(ino, [next EXCEPT !.held[ino] = @ + 1])]
                /\ UNCHANGED <<blockvars, last_copy>>
           ELSE /\ th' = [th EXCEPT ![t] = next]
                /\ IF find_gc_inode(ino, r.ilist) = NULL_INODE
                      \/ fetch \in {"no_page", "skip"}
                   THEN UNCHANGED <<blockvars, last_copy>>
                   ELSE /\ last_copy' = CopyRecord("data", segno, r.off, r.gc_type)
                        /\ IF r.gc_type = "BG_GC"
                           THEN /\ page_dirty' = page_dirty \cup {<<segno, r.off>>}
                                /\ UNCHANGED <<cur_valid_map, blkaddr, dirty_segmap>>
                           ELSE write_pages({<<segno, r.off>>})
    /\ UNCHANGED <<statics, victimvars, pressure, budgets, lockvars,
                   last_gc_status>>

\* the end of an evacuator: sync_node_pages for FG_GC on a node segment,
\* then GC_DONE to the for loop of f2fs_gc
EvacEnd(t) ==
    /\ th[t].pc = "evac_end"
    /\ LET r == th[t]
           segno == r.segno + r.i
       IN
       /\ IF sum_type[segno] = "SUM_TYPE_NODE" /\ r.gc_type = "FG_GC"
          THEN write_pages({sl \in page_dirty : sum_type[sl[1]] = "SUM_TYPE_NODE"})
          ELSE UNCHANGED blockvars
       /\ th' = [th EXCEPT ![t] = AfterGC(r, "GC_DONE")]
    /\ last_copy' = NoCopy
    /\ UNCHANGED <<statics, victimvars, pressure, budgets, lockvars,
                   last_gc_status>>

need_checkpoint_space_only(r) == has_not_enough_free_secs

\* the condition of the stop label for calling write_checkpoint
need_checkpoint(r) == has_not_enough_free_secs \/ r.gc_status = "GC_BLOCKED"

\* write_checkpoint(sbi, is_blocked, false): it takes cp_mutex unless the
\* caller blocked the operations already, and releases it when the
\* checkpoint is written; the pressure is gone then
write_checkpoint(is_blocked) ==
    /\ is_blocked \/ cp_mutex = "free"
    /\ cp_mutex' = "free"
    /\ need_cp' = FALSE

\* the stop label: write_checkpoint(sbi, gc_status == GC_BLOCKED, false),
\* then the retry
Stop(t) ==
    /\ th[t].pc = "stop"
    /\ LET r == th[t]
           is_blocked == r.gc_status = "GC_BLOCKED"
       IN
       IF need_checkpoint(r)
       THEN /\ write_checkpoint(is_blocked)
            /\ Locking(t, write_checkpoint_locks(is_blocked))
            /\ th' = [th EXCEPT ![t] =
                   [r EXCEPT !.blocked = IF ~is_blocked THEN @
                                         ELSE IF @ = "pending" THEN "written"
                                         ELSE "twice",
                             !.pc = IF r.nfree # 0 THEN "gc_more" ELSE "unlock"]]
       ELSE /\ th' = [th EXCEPT ![t] = [r EXCEPT !.pc = "unlock"]]
            /\ UNCHANGED <<cp_mutex, need_cp, innerlocks>>
    /\ UNCHANGED <<statics, blockvars, victimvars, budgets, free_secs, ms_active,
                   nat_version, gc_mutex, last_gc_status, last_copy>>

\* what f2fs_gc still uses after mutex_unlock: gc_status and ilist; what
\* the call has done is kept with them
Unlocked(r) ==
    [IdleThread EXCEPT !.pc = "put", !.nGC = r.nGC, !.gc_status = r.gc_status,
                       !.ilist = r.ilist, !.held = r.held, !.unlocks = r.unlocks,
                       !.blocked = r.blocked, !.dup = r.dup,
                       !.reclaimed = r.reclaimed, !.nfree = r.nfree,
                       !.entry_dirty = r.entry_dirty]

\* sbi->last_gc_status = gc_status; mutex_unlock(&sbi->gc_mutex)
Unlock(t) ==
    /\ th[t].pc = "unlock"
    /\ last_gc_status' = th[t].gc_status
    /\ gc_mutex' = "free"
    /\ Locking(t, <<mutex_unlock("gc_mutex")>>)
    /\ th' = [th EXCEPT ![t] = Unlocked([@ EXCEPT !.unlocks = @ + 1])]
    /\ UNCHANGED <<statics, blockvars, victimvars, pressure, budgets, cp_mutex,
                   last_copy>>

\* put_gc_inode(&ilist) and the return of gc_status
Put(t) ==
    /\ th[t].pc = "put"
    /\ th' = [th EXCEPT ![t] = [put_gc_inode(@) EXCEPT !.pc = "ret"]]
    /\ UNCHANGED <<statics, blockvars, victimvars, pressure, budgets, lockvars,
                   last_gc_status, last_copy>>

----------------------------------------------------------------------------
(* What runs next to the collector.                                        *)

\* what has happened next to the collector so far
events == allocs + writes + pressures + (IF ms_active THEN 0 ELSE 1)

\* An event next to the collector is taken where the collector reads what
\* the event changes next: a block of the segment under evacuation, the
\* checkpoint pressure at the head of an iteration, the free sections and
\* MS_ACTIVE at the head of the victim loop.
At(pcs) == events < MaxEvents /\ \E t \in Threads : th[t].pc \in pcs

Evacuating(s) ==
    /\ events < MaxEvents
    /\ \E t \in Threads : th[t].pc = "evac" /\ th[t].segno + th[t].i = s

\* a file is deleted and the nid of its dnode is used again: the blocks of
\* the dnode are invalid and the NAT version of the nid differs
DeleteNode(s) ==
    /\ writes < MaxWrites
    /\ sum_type[s] = "SUM_TYPE_DATA" /\ cur_valid_map[s] # {}
    /\ LET vmap == [cur_valid_map EXCEPT ![s] = {}] IN
       /\ cur_valid_map' = vmap
       /\ dirty_segmap' = locate_dirty_segment(dirty_segmap, vmap, curseg, s)
    /\ blkaddr' = [blkaddr EXCEPT ![s] = [o \in Offs |-> ELSEWHERE]]
    /\ nat_version' = [nat_version EXCEPT ![s] = 1]
    /\ writes' = writes + 1
    /\ UNCHANGED <<statics, victimvars, allocs, calls, pressures, page_dirty,
                   free_secs, need_cp, ms_active, lockvars, last_gc_status, th,
                   last_copy>>

\* the writer writes the pages GC dirtied in one segment
WriterDrain(s) ==
    /\ \E o \in Offs : <<s, o>> \in page_dirty
    /\ write_pages({sl \in page_dirty : sl[1] = s})
    /\ UNCHANGED <<statics, victimvars, pressure, budgets, lockvars,
                   last_gc_status, th, last_copy>>

\* the dirty node pages outgrow the free space: should_do_checkpoint is true
\* until a checkpoint is written
CpPressure ==
    /\ ~need_cp /\ pressures < MaxPressures
    /\ need_cp' = TRUE
    /\ pressures' = pressures + 1
    /\ UNCHANGED <<statics, blockvars, victimvars, allocs, writes, calls,
                   free_secs, ms_active, nat_version, lockvars, last_gc_status,
                   th, last_copy>>

\* the allocator opens a free section
FreeSecsChange ==
    /\ allocs < MaxAllocs
    /\ free_secs > 0
    /\ free_secs' = free_secs - 1
    /\ allocs' = allocs + 1
    /\ UNCHANGED <<statics, blockvars, victimvars, writes, calls, pressures,
                   need_cp, ms_active, nat_version, lockvars, last_gc_status,
                   th, last_copy>>

\* the file system is being unmounted: MS_ACTIVE is cleared
Deactivate ==
    /\ ms_active
    /\ ms_active' = FALSE
    /\ UNCHANGED <<statics, blockvars, victimvars, budgets, free_secs, need_cp,
                   nat_version, lockvars, last_gc_status, th, last_copy>>

WriterInvalidates == \E s \in Segs : Evacuating(s) /\ InvalidateIn(s)

WriterDeletes == \E s \in Segs : Evacuating(s) /\ DeleteNode(s)

PressureAppears == At({"evac"}) /\ CpPressure

AllocatorTakesSection == At({"loop"}) /\ FreeSecsChange

Unmount == At({"loop"}) /\ Deactivate

\* node segments first or data segments first
SumTypeLayouts ==
    {[s \in Segs |-> IF 2 * s < TOTAL_SEGS THEN "SUM_TYPE_DATA" ELSE "SUM_TYPE_NODE"],
     [s \in Segs |-> IF 2 * s < TOTAL_SEGS THEN "SUM_TYPE_NODE" ELSE "SUM_TYPE_DATA"]}

\* every segment half valid, or one of them full
ValidLayouts ==
    {[s \in Segs |-> {0}],
     [s \in Segs |-> IF s = 2 THEN Offs ELSE {0}]}

Mounted ==
    /\ log_segs_per_sec \in 0 .. MaxLogSegsPerSec
    /\ sum_type \in SumTypeLayouts
    /\ cur_valid_map \in ValidLayouts
    /\ ckpt_valid_blocks = [s \in Segs |-> Cardinality(cur_valid_map[s])]
    /\ mtime = MountMtime
    /\ min_mtime = 0
    /\ max_mtime = MaxMtime
    /\ curseg = {0}
    /\ dirty_segmap = {s \in Segs : s \notin curseg /\ cur_valid_map[s] # Offs}
    /\ victim_segmap = [t \in GcTypes |-> {}]
    /\ last_victim = [m \in GcModes |-> 0]
    /\ gv = NoCall
    /\ allocs = 0
    /\ writes = 0
    /\ free_secs \in {0, MaxFreeSecs}
    /\ GcIdle

Init == Mounted /\ cb = NoCost /\ AtRest

Next ==
    \/ BgEnter
    \/ FgEnter
    \/ \E t \in Threads : GcMore(t)
    \/ \E t \in Threads : Loop(t)
    \/ \E t \in Threads : DoGarbageCollect(t)
    \/ \E t \in Threads : EvacCheck(t)
    \/ \E t \in Threads : EvacNode(t)
    \/ \E t \in Threads : EvacData(t)
    \/ \E t \in Threads : EvacEnd(t)
    \/ \E t \in Threads : Stop(t)
    \/ \E t \in Threads : Unlock(t)
    \/ \E t \in Threads : Put(t)
    \/ WriterInvalidates
    \/ WriterDeletes
    \/ \E s \in Segs : WriterDrain(s)
    \/ PressureAppears
    \/ AllocatorTakesSection
    \/ Unmount

Spec == Init /\ [][Next]_vars

----------------------------------------------------------------------------
(* SpecCost: the arithmetic of get_cb_cost.                                *)

\* u and age are percentages held in an unsigned char
Percent == 0 .. 100

\* get_cb_cost has computed u and age for a section
InitCost ==
    /\ Mounted
    /\ log_segs_per_sec = 0 /\ free_secs = 0
    /\ \A s \in Segs : sum_type[s] = "SUM_TYPE_DATA" <=> 2 * s < TOTAL_SEGS
    /\ \A s \in Segs : cur_valid_map[s] = {0}
    /\ cb \in [op : {"locals"}, u : Percent, age : Percent]
    /\ AtRest

\* the return statement of get_cb_cost
ReturnCost ==
    /\ cb.op = "locals"
    /\ cb' = [op |-> "return", u |-> cb.u, age |-> cb.age,
              benefit |-> cb_benefit(cb.u, cb.age),
              cost |-> cb_cost(cb.u, cb.age)]
    /\ UNCHANGED <<fsvars, gcvars0, restvars>>

NextCost == ReturnCost

SpecCost == InitCost /\ [][NextCost]_vars

----------------------------------------------------------------------------
(* SpecWorker: gc_thread_func, tick by tick, around the f2fs_gc above.     *)

\* the sleep times of gc.h, in units of the shortest of them
GC_THREAD_MIN_SLEEP_TIME == 1

GC_THREAD_MAX_SLEEP_TIME == 3

\* the places GC_THREAD_NOGC_SLEEP_TIME can take next to the other two: the
\* shortest sleep, the longest, or longer than both
NogcTimes == {GC_THREAD_MIN_SLEEP_TIME, GC_THREAD_MAX_SLEEP_TIME,
              GC_THREAD_MAX_SLEEP_TIME + 2 * GC_THREAD_MIN_SLEEP_TIME}

GC_THREAD_NOGC_SLEEP_TIME == wk.nogc

MaxTicks == 3

\* increase_sleep_time(wait): one step longer, at most the longest sleep
increase_sleep_time(wait) ==
    IF wait + GC_THREAD_MIN_SLEEP_TIME > GC_THREAD_MAX_SLEEP_TIME
    THEN GC_THREAD_MAX_SLEEP_TIME
    ELSE wait + GC_THREAD_MIN_SLEEP_TIME

\* decrease_sleep_time(wait): one step shorter, at least the shortest sleep
decrease_sleep_time(wait) ==
    IF wait - GC_THREAD_MIN_SLEEP_TIME <= GC_THREAD_MIN_SLEEP_TIME
    THEN GC_THREAD_MIN_SLEEP_TIME
    ELSE wait - GC_THREAD_MIN_SLEEP_TIME

\* what one iteration of the loop reads: try_to_freeze(),
\* kthread_should_stop(), test_opt(sbi, BG_GC), mutex_trylock(&sbi->gc_mutex),
\* is_idle(sbi) and has_enough_invalid_blocks(sbi)
TickInputs(frozen, idle, dense) ==
    [frozen |-> frozen, stop |-> wk.should_stop, opt |-> wk.opt,
     lock_free |-> mutex_trylock(gc_mutex), idle |-> idle, dense |-> dense]

\* the loop body without the is_idle test
gc_thread_path_busy_runs(in) ==
    IF in.frozen THEN "freeze"
    ELSE IF in.stop THEN "stop"
    ELSE IF ~in.opt THEN "option_off"
    ELSE IF ~in.lock_free THEN "lock_held"
    ELSE "gc"

\* the path one iteration of the loop body takes: the first continue or
\* break its tests reach, or the call of f2fs_gc
gc_thread_path(in) ==
    IF in.frozen THEN "freeze"
    ELSE IF in.stop THEN "stop"
    ELSE IF ~in.opt THEN "option_off"
    ELSE IF ~in.lock_free THEN "lock_held"
    ELSE IF ~in.idle THEN "busy"
    ELSE "gc"

\* wait_ms when the iteration continues or calls f2fs_gc
wait_ms_before_gc(path, wait_ms, dense) ==
    IF path = "busy" THEN increase_sleep_time(wait_ms)
    ELSE IF path = "gc"
    THEN IF dense THEN decrease_sleep_time(wait_ms)
         ELSE increase_sleep_time(wait_ms)
    ELSE wait_ms

\* wait_ms after f2fs_gc has returned status
wait_ms_after_gc(status, wait_ms) ==
    IF status = "GC_NONE" THEN GC_THREAD_NOGC_SLEEP_TIME
    ELSE IF wait_ms = GC_THREAD_NOGC_SLEEP_TIME THEN GC_THREAD_MAX_SLEEP_TIME
    ELSE wait_ms

\* the mutex calls of one iteration on gc_mutex
gc_thread_locks(path) ==
    IF path = "gc" THEN <<mutex_lock("gc_mutex")>>
    ELSE IF path = "busy"
    THEN <<mutex_lock("gc_mutex"), mutex_unlock("gc_mutex")>>
    ELSE <<>>

NoTick == [path |-> "none"]

\* what the worker leaves alone outside f2fs_gc
worker_frame == <<log_segs_per_sec, sum_type, ckpt_valid_blocks, mtime, curseg,
                  cb, nb, kt, blockvars, victimvars, pressure, budgets,
                  cp_mutex, last_gc_status, last_copy>>

\* one iteration of the loop of gc_thread_func, up to its continue, its
\* break or its call of f2fs_gc(sbi, 1); the loop condition ends the thread
\* after a continue once a stop is requested
Tick ==
    /\ wk.pc = "wait"
    /\ wk.ticks < MaxTicks
    /\ \E frozen, idle, dense \in BOOLEAN :
         \E in \in {TickInputs(frozen, idle, dense)} :
           \E path \in {gc_thread_path(in)} :
             /\ wk' = [wk EXCEPT
                    !.pc = IF path = "gc" THEN "gc"
                           ELSE IF in.stop THEN "exited" ELSE "wait",
                    !.ticks = @ + 1,
                    !.slept = IF path = "freeze" THEN wk.slept ELSE wk.wait_ms,
                    !.wait_ms = wait_ms_before_gc(path, @, dense),
                    !.adjusted = wait_ms_before_gc(path, wk.wait_ms, dense),
                    !.last = [in EXCEPT !.idle = path \in {"busy", "gc"} /\ idle,
                                        !.dense = path = "gc" /\ dense]
                                 @@ [path |-> path],
                    !.ret = "none",
                    !.bg_gc = IF path = "gc" THEN @ + 1 ELSE @]
             /\ gc_mutex' = IF path = "gc" THEN "bg" ELSE gc_mutex
             /\ th' = IF path = "gc"
                      THEN [Returned_to_idle EXCEPT !["bg"] = NewCall(1)]
                      ELSE th
             /\ Locking("bg", gc_thread_locks(path))
    /\ UNCHANGED worker_frame

\* f2fs_gc has returned to the worker, gc_mutex released on the way
TickReturn ==
    /\ wk.pc = "gc"
    /\ th["bg"].pc = "ret"
    /\ wk' = [wk EXCEPT
           !.pc = IF wk.should_stop THEN "exited" ELSE "wait",
           !.ret = th["bg"].gc_status,
           !.wait_ms = wait_ms_after_gc(th["bg"].gc_status, @)]
    /\ th' = Returned_to_idle
    /\ UNCHANGED <<worker_frame, lockvars>>

\* kthread_stop() asks the worker to stop
StopRequest ==
    /\ wk.pc # "exited"
    /\ ~wk.should_stop
    /\ wk' = [wk EXCEPT !.should_stop = TRUE]
    /\ UNCHANGED <<worker_frame, lockvars, th>>

\* a foreground caller takes gc_mutex for its own f2fs_gc
FgTakes ==
    /\ wk.pc = "wait"
    /\ gc_mutex = "free"
    /\ gc_mutex' = "fg"
    /\ UNCHANGED <<statics, blockvars, victimvars, pressure, budgets, cp_mutex,
                   innerlocks, last_gc_status, last_copy, th>>

\* and releases it at the end of its f2fs_gc
FgReleases ==
    /\ gc_mutex = "fg"
    /\ gc_mutex' = "free"
    /\ UNCHANGED <<statics, blockvars, victimvars, pressure, budgets, cp_mutex,
                   innerlocks, last_gc_status, last_copy, th>>

\* the writer overwrites a block while the worker sleeps
WriteBetweenTicks == wk.pc = "wait" /\ Invalidate

InitWorker ==
    /\ Mounted
    /\ log_segs_per_sec = 0
    /\ \A s \in Segs : sum_type[s] = "SUM_TYPE_DATA" <=> 2 * s < TOTAL_SEGS
    /\ cb = NoCost /\ nb = NoNode /\ kt = NoThread
    /\ wk \in [pc : {"wait"}, wait_ms : {GC_THREAD_MIN_SLEEP_TIME},
               nogc : NogcTimes, opt : BOOLEAN, should_stop : {FALSE},
               ticks : {0}, slept : {0}, adjusted : {0}, last : {NoTick},
               ret : {"none"}, bg_gc : {0}]

NextWorker ==
    \/ Tick
    \/ GcMore("bg")
    \/ Loop("bg")
    \/ DoGarbageCollect("bg")
    \/ EvacCheck("bg")
    \/ EvacNode("bg")
    \/ EvacData("bg")
    \/ EvacEnd("bg")
    \/ Stop("bg")
    \/ Unlock("bg")
    \/ Put("bg")
    \/ TickReturn
    \/ StopRequest
    \/ FgTakes
    \/ FgReleases
    \/ WriteBetweenTicks

SpecWorker == InitWorker /\ [][NextWorker]_vars

----------------------------------------------------------------------------
(* SpecBidx: start_bidx_of_node over every node offset of a file.          *)

\* node ids in an indirect node and block addresses in a direct node and in
\* the inode (f2fs_fs.h), at a small size
NIDS_PER_BLOCK == 4

ADDRS_PER_BLOCK == 5

ADDRS_PER_INODE == 3

\* unsigned int and block_t wrap at 2^UintBits
UintBits == 16

Uint(x) == x % Pow2(UintBits)

\* the last node offset of a file: the last child of the last indirect node
\* under the double-indirect node
MaxNofs == 5 + 2 * NIDS_PER_BLOCK + NIDS_PER_BLOCK * (NIDS_PER_BLOCK + 1)

\* start_bidx_of_node with the indirect nodes before a direct node counted
\* as if they were direct nodes
start_bidx_of_node_no_dec(node_ofs) ==
    LET indirect_blks == 2 * NIDS_PER_BLOCK + 4
        start_bidx == IF node_ofs = 0 THEN 0 ELSE 1
        bidx == IF node_ofs <= 2 THEN Uint(node_ofs - 1)
                ELSE IF node_ofs <= indirect_blks THEN Uint(node_ofs - 2)
                ELSE Uint(node_ofs - 5)
    IN IF start_bidx # 0
       THEN Uint(bidx * ADDRS_PER_BLOCK + ADDRS_PER_INODE)
       ELSE start_bidx

\* start_bidx_of_node(node_ofs), in unsigned arithmetic
start_bidx_of_node(node_ofs) ==
    LET indirect_blks == 2 * NIDS_PER_BLOCK + 4
        start_bidx == IF node_ofs = 0 THEN 0 ELSE 1
        dec == IF node_ofs <= indirect_blks
               THEN Uint(node_ofs - 4) \div (NIDS_PER_BLOCK + 1)
               ELSE Uint(node_ofs - indirect_blks - 3) \div (NIDS_PER_BLOCK + 1)
        bidx == IF node_ofs <= 2 THEN Uint(node_ofs - 1)
                ELSE IF node_ofs <= indirect_blks THEN Uint(node_ofs - 2 - dec)
                ELSE Uint(node_ofs - 5 - dec)
    IN IF start_bidx # 0
       THEN Uint(bidx * ADDRS_PER_BLOCK + ADDRS_PER_INODE)
       ELSE start_bidx

\* the node offsets of a file in the layout inode, two direct nodes, two
\* indirect nodes with NIDS_PER_BLOCK direct nodes each, the double-indirect
\* node with NIDS_PER_BLOCK indirect nodes of NIDS_PER_BLOCK direct nodes
Nofs == 0 .. MaxNofs

IndirectNodes ==
    {3, 4 + NIDS_PER_BLOCK}
        \cup {6 + 2 * NIDS_PER_BLOCK + k * (NIDS_PER_BLOCK + 1) :
                  k \in 0 .. (NIDS_PER_BLOCK - 1)}

DoubleIndirectNode == 5 + 2 * NIDS_PER_BLOCK

Dnodes == (Nofs \ {0, DoubleIndirectNode}) \ IndirectNodes

\* the zero-based rank of a direct node among the direct nodes, by offset
DnodeRank(nofs) == Cardinality({d \in Dnodes : d < nofs})

\* gc_data_segment has read ofs_in_node of a summary entry and nofs of the
\* node it names
InitBidx ==
    /\ Mounted
    /\ log_segs_per_sec = 0 /\ free_secs = 0
    /\ \A s \in Segs : sum_type[s] = "SUM_TYPE_DATA" <=> 2 * s < TOTAL_SEGS
    /\ \A s \in Segs : cur_valid_map[s] = {0}
    /\ cb = NoCost /\ wk = NoWorker /\ kt = NoThread
    /\ nb \in [op : {"args"}, nofs : Nofs, ofs_in_node : 0 .. (ADDRS_PER_INODE - 1)]

\* start_bidx = start_bidx_of_node(nofs) and the index start_bidx +
\* ofs_in_node handed to the page lookups
StartBidx ==
    /\ nb.op = "args"
    /\ nb' = [op |-> "return", nofs |-> nb.nofs, ofs_in_node |-> nb.ofs_in_node,
              start_bidx |-> start_bidx_of_node(nb.nofs),
              file_bidx |-> Uint(start_bidx_of_node(nb.nofs) + nb.ofs_in_node)]
    /\ UNCHANGED <<fsvars, gcvars0, cb, wk, kt>>

NextBidx == StartBidx

SpecBidx == InitBidx /\ [][NextBidx]_vars

----------------------------------------------------------------------------
(* SpecThread: start_gc_thread and stop_gc_thread called in any order.     *)

MaxStarts == 3

\* the f2fs_gc_kthread structures kmalloc can return, and no structure
GcThreads == 1 .. MaxStarts

NULL_GC_THREAD == 0

\* what kmalloc and kthread_run can do in one start_gc_thread
StartOutcomes == {"no_memory", "no_thread", "started"}

\* what a kthread_stop and a kfree on a structure already freed can do: the
\* kernel stops on the stale pointer, or the calls go through
StaleOutcomes == {"oops", "returns"}

\* start_gc_thread(sbi) with the given outcome of kmalloc and kthread_run;
\* gc_th is the structure kmalloc returns
start_gc_thread(k, outcome, gc_th) ==
    IF outcome = "no_memory"
    THEN [k EXCEPT !.last = [op |-> "start", ret |-> "-ENOMEM", outcome |-> outcome]]
    ELSE IF outcome = "no_thread"
    THEN [k EXCEPT !.gc_thread = gc_th,
                   !.mem[gc_th] = "freed",
                   !.frees[gc_th] = @ + 1,
                   !.task[gc_th] = "IS_ERR",
                   !.starts = @ + 1,
                   !.last = [op |-> "start", ret |-> "-ENOMEM", outcome |-> outcome]]
    ELSE [k EXCEPT !.gc_thread = gc_th,
                   !.mem[gc_th] = "live",
                   !.task[gc_th] = "running",
                   !.starts = @ + 1,
                   !.last = [op |-> "start", ret |-> "0", outcome |-> outcome]]

\* stop_gc_thread(sbi); stale is what the calls on a freed structure do
stop_gc_thread(k, stale) ==
    LET gc_th == k.gc_thread
        before == [op |-> "stop", gc_thread |-> gc_th,
                   after |-> [op |-> k.last.op,
                              ret |-> IF k.last.op = "start" THEN k.last.ret
                                      ELSE "none"]]
    IN IF gc_th = NULL_GC_THREAD
       THEN [k EXCEPT !.last = before @@ [stopped |-> FALSE, freed |-> FALSE,
                                          stale |-> FALSE]]
       ELSE IF k.mem[gc_th] = "live"
       THEN [k EXCEPT !.task[gc_th] = "stopped",
                      !.mem[gc_th] = "freed",
                      !.frees[gc_th] = @ + 1,
                      !.gc_thread = NULL_GC_THREAD,
                      !.last = before @@ [stopped |-> TRUE, freed |-> TRUE,
                                          stale |-> FALSE]]
       ELSE IF stale = "oops"
       THEN [k EXCEPT !.oops = TRUE,
                      !.last = before @@ [stopped |-> FALSE, freed |-> FALSE,
                                          stale |-> TRUE]]
       ELSE [k EXCEPT !.frees[gc_th] = @ + 1,
                      !.gc_thread = NULL_GC_THREAD,
                      !.last = before @@ [stopped |-> FALSE, freed |-> TRUE,
                                          stale |-> TRUE]]

\* the superblock info is allocated zeroed: no worker yet
InitThread ==
    /\ Mounted
    /\ log_segs_per_sec = 0 /\ free_secs = 0
    /\ \A s \in Segs : sum_type[s] = "SUM_TYPE_DATA" <=> 2 * s < TOTAL_SEGS
    /\ \A s \in Segs : cur_valid_map[s] = {0}
    /\ cb = NoCost /\ wk = NoWorker /\ nb = NoNode
    /\ kt = [op |-> "sbi", gc_thread |-> NULL_GC_THREAD,
             mem |-> [g \in GcThreads |-> "unused"],
             frees |-> [g \in GcThreads |-> 0],
             task |-> [g \in GcThreads |-> "none"],
             starts |-> 0, oops |-> FALSE, last |-> [op |-> "none"]]

StartGcThread ==
    /\ kt.op = "sbi" /\ ~kt.oops
    /\ kt.starts < MaxStarts
    /\ \E outcome \in StartOutcomes :
           kt' = start_gc_thread(kt, outcome, kt.starts + 1)
    /\ UNCHANGED <<fsvars, gcvars0, cb, wk, nb>>

StopGcThread ==
    /\ kt.op = "sbi" /\ ~kt.oops
    /\ \E stale \in StaleOutcomes : kt' = stop_gc_thread(kt, stale)
    /\ UNCHANGED <<fsvars, gcvars0, cb, wk, nb>>

NextThread ==
    \/ StartGcThread
    \/ StopGcThread

SpecThread == InitThread /\ [][NextThread]_vars

----------------------------------------------------------------------------
(* Properties of the victim selector.                                      *)

Returned == gv.op = "get_victim" /\ gv.ret = 1

ReturnedLFS == Returned /\ gv.alloc_mode = "LFS"

\* C1: get_victim never returns a section that contains a current segment,
\* for either gc_type, on the scan path and on the FG fast path.
C1_NeverCursec == Returned => ~gv.cursec

\* C3: a segno whose bit is set in victim_segmap[FG_GC] is not returned again
\* by a later get_victim call, on the scan paths and on the FG fast path.
C3_FgVictimNotRechosen == Returned => ~gv.fg_before

\* C4: when get_victim returns a victim with alloc_mode LFS, the segno is
\* aligned to its section and every segno of the section has its bit set in
\* victim_segmap[gc_type].
C4_SectionBitsSet ==
    ReturnedLFS =>
        /\ gv.result % segs_per_sec = 0
        /\ \A s \in gv.result .. (gv.result + segs_per_sec - 1) :
               s \in Segs /\ s \in victim_segmap[gv.gc_type]

C4_Witness ==
    /\ ReturnedLFS /\ gv.path = "fast" /\ segs_per_sec = 2
    /\ gv.result \in victim_segmap["FG_GC"]

\* C12: when dirty_segmap[DIRTY] is empty, get_victim(gc_type,
\* NO_CHECK_TYPE) returns false, for BG_GC and FG_GC and whatever
\* victim_segmap and last_victim hold.
C12_EmptyDirtyNoVictim ==
    gv.op = "get_victim" /\ gv.type = NO_CHECK_TYPE /\ gv.dirty_empty =>
        gv.ret = 0

\* C14: a BG_GC get_victim that selects a victim, followed by an FG_GC
\* get_victim that takes its victim through the fast path, leaves
\* victim_segmap[BG_GC] equal to its value before the pair.
C14_PairRestoresBgMap ==
    gv.op = "get_victim" /\ gv.gc_type = "FG_GC" /\ gv.type = NO_CHECK_TYPE
        /\ gv.path = "fast" /\ gv.ret = 1 /\ gv.after_bg =>
            victim_segmap["BG_GC"] = gv.bg_before_pair

C17_CostMonotone ==
    cb.op = "return" =>
        /\ \A u \in Percent : u <= cb.u => cb_cost(u, cb.age) <= cb.cost
        /\ \A age \in Percent : age >= cb.age => cb_cost(cb.u, age) <= cb.cost
        /\ 0 <= cb.benefit /\ cb.benefit <= UINT_MAX
        /\ cb.cost = UINT_MAX - cb.benefit

\* a cost the integer division leaves the same for the next smaller u
C17_Witness ==
    /\ cb.op = "return" /\ cb.u > 0 /\ cb.age > 0 /\ cb.benefit > 0
    /\ cb_cost(cb.u - 1, cb.age) = cb.cost

\* C18: in a BG_GC get_victim, when max_mtime = min_mtime after get_cb_cost
\* has observed a section, the age of the section is 100, so for u < 100 its
\* cost is below max_cost, and the call returns a victim.
C18_FlatMtimeSelects ==
    gv.op = "get_victim" /\ gv.gc_type = "BG_GC" /\ gv.type = NO_CHECK_TYPE =>
        /\ \A o \in gv.observed :
               o.max_mtime = o.min_mtime =>
                   o.age = 100 /\ (o.u < 100 => o.cost < UINT_MAX)
        /\ (\E o \in gv.observed : o.max_mtime = o.min_mtime /\ o.u < 100)
               => gv.ret = 1

\* C20: the candidates one get_victim scan counts, those whose cost is not
\* max_cost, never number more than MAX_VICTIM_SEARCH.
C20_SearchBounded ==
    gv.op = "get_victim" => gv.nsearched <= MAX_VICTIM_SEARCH

\* C21: when get_victim takes the scan path, a victim it returns is the
\* first segment in scan order whose cost is the minimum over the segments
\* the scan examined, that cost is below max_cost, and the result is the
\* start of its section (LFS) or the segment (SSR); it returns false exactly
\* when every examined segment has the cost max_cost.
C21_ScanReturnsFirstMinimum ==
    gv.op = "get_victim" /\ gv.path = "scan" =>
        LET ex == gv.examined
            unit == IF gv.alloc_mode = "SSR" THEN 1 ELSE segs_per_sec
        IN
        /\ gv.ret = 1 =>
               /\ gv.min_cost < gv.max_cost
               /\ gv.result = (gv.min_segno \div unit) * unit
               /\ \E k \in 1 .. Len(ex) :
                      /\ ex[k].segno = gv.min_segno /\ ex[k].cost = gv.min_cost
                      /\ \A j \in 1 .. Len(ex) : ex[j].cost >= ex[k].cost
                      /\ \A j \in 1 .. (k - 1) : ex[j].cost > ex[k].cost
        /\ gv.ret = 0 <=> \A k \in 1 .. Len(ex) : ex[k].cost = gv.max_cost

\* two candidates of the same minimum cost, the first of them returned
C21_Witness ==
    /\ gv.op = "get_victim" /\ gv.path = "scan" /\ gv.ret = 1
    /\ \E j \in 1 .. Len(gv.examined), k \in 1 .. Len(gv.examined) :
           /\ j < k /\ gv.examined[j].cost = gv.examined[k].cost
           /\ gv.examined[j].cost = gv.min_cost
           /\ gv.examined[j].segno = gv.min_segno

\* C24: get_victim called during GC (NO_CHECK_TYPE, LFS) leaves the dirty
\* seglist as it found it, so its victim is not removed; get_victim called
\* for SSR returns a dirty segment of the hinted type whose valid-block cost
\* is the minimum of the costs it examined, has removed that segment from the
\* dirty seglist when it returns and leaves victim_segmap[BG_GC] and
\* victim_segmap[FG_GC] as they were.
C24_GcKeepsSsrRemoves ==
    gv.op = "get_victim" =>
        /\ gv.alloc_mode = "LFS" =>
               /\ gv.dirty_exit = gv.dirty_entry
               /\ gv.ret = 1 /\ gv.result \in gv.dirty_entry =>
                      gv.result \in gv.dirty_exit
        /\ gv.alloc_mode = "SSR" =>
               /\ gv.victim_exit = gv.victim_entry
               /\ gv.ret = 1 =>
                      /\ gv.result \in gv.dirty_entry
                      /\ sum_type[gv.result] = GET_SSR_TYPE(gv.type)
                      /\ gv.min_cost = ckpt_valid_blocks[gv.result]
                      /\ \A k \in 1 .. Len(gv.examined) :
                             gv.examined[k].cost >= gv.min_cost
                      /\ gv.dirty_exit = gv.dirty_entry \ {gv.result}

----------------------------------------------------------------------------
(* Properties of the background worker.                                    *)

\* the iteration of the worker's loop has reached its continue, its break
\* or the return of its f2fs_gc
TickDone == wk.pc \in {"wait", "exited"} /\ wk.last.path # "none"

C23_WaitAfterGc ==
    TickDone /\ wk.last.path = "gc" =>
        /\ wk.wait_ms =
               IF wk.ret = "GC_NONE" THEN GC_THREAD_NOGC_SLEEP_TIME
               ELSE IF wk.slept = GC_THREAD_NOGC_SLEEP_TIME
               THEN GC_THREAD_MAX_SLEEP_TIME
               ELSE wk.adjusted
        /\ \/ wk.wait_ms \in GC_THREAD_MIN_SLEEP_TIME .. GC_THREAD_MAX_SLEEP_TIME
           \/ wk.wait_ms = GC_THREAD_NOGC_SLEEP_TIME

----------------------------------------------------------------------------
(* Properties of start_bidx_of_node.                                       *)

\* C25: for the inode start_bidx_of_node returns 0; for the direct node of
\* zero-based rank k among the direct nodes of the file, in offset order, it
\* returns ADDRS_PER_INODE + k * ADDRS_PER_BLOCK, so the values of two
\* consecutive direct nodes differ by ADDRS_PER_BLOCK, also from offset 1 to
\* 2 and across every indirect node.
C25_StartBidxByRank ==
    nb.op = "return" /\ nb.nofs \in Dnodes \cup {0} =>
        /\ nb.start_bidx =
               IF nb.nofs = 0 THEN 0
               ELSE ADDRS_PER_INODE + DnodeRank(nb.nofs) * ADDRS_PER_BLOCK
        /\ \A d \in Dnodes :
               DnodeRank(d) = DnodeRank(nb.nofs) + 1 /\ nb.nofs # 0 =>
                   start_bidx_of_node(d) = nb.start_bidx + ADDRS_PER_BLOCK
        /\ nb.file_bidx = nb.start_bidx + nb.ofs_in_node

\* the first direct node of the second indirect node under the
\* double-indirect node
C25_Witness ==
    /\ nb.op = "return"
    /\ nb.nofs = 8 + 3 * NIDS_PER_BLOCK
    /\ nb.nofs \in Dnodes /\ (nb.nofs - 1) \in IndirectNodes
    /\ nb.start_bidx = ADDRS_PER_INODE + (3 * NIDS_PER_BLOCK + 2) * ADDRS_PER_BLOCK

----------------------------------------------------------------------------
(* Properties of start_gc_thread and stop_gc_thread.                       *)

\* C26: between the calls sbi->gc_thread is NULL or a structure that is
\* allocated and not freed, and no structure is freed twice; a
\* stop_gc_thread that follows a failed start_gc_thread stops no task and
\* frees nothing; a stop_gc_thread that follows a successful one stops the
\* task, frees the structure and leaves gc_thread NULL; a stop_gc_thread
\* that follows a stop_gc_thread does nothing.
C26_GcThreadNullOrLive ==
    kt.op = "sbi" =>
        /\ kt.gc_thread = NULL_GC_THREAD \/ kt.mem[kt.gc_thread] = "live"
        /\ \A g \in GcThreads : kt.frees[g] <= 1
        /\ ~kt.oops
        /\ kt.last.op = "stop" =>
               /\ kt.gc_thread = NULL_GC_THREAD
               /\ kt.last.after.op = "start" /\ kt.last.after.ret = "-ENOMEM" =>
                      ~kt.last.stopped /\ ~kt.last.freed /\ ~kt.last.stale
               /\ kt.last.after.op = "start" /\ kt.last.after.ret = "0" =>
                      /\ kt.last.stopped /\ kt.last.freed
                      /\ kt.task[kt.last.gc_thread] = "stopped"
                      /\ kt.frees[kt.last.gc_thread] = 1
               /\ kt.last.after.op = "stop" =>
                      ~kt.last.stopped /\ ~kt.last.freed /\ ~kt.last.stale

----------------------------------------------------------------------------
(* Properties of the evacuators and of f2fs_gc.                            *)

Copied == last_copy.op = "copy"

\* C2: no block is copied (a data page moved by move_data_page, a node page
\* dirtied for relocation) unless the bit of its slot is set in cur_valid_map
\* and its parent holds the address start(segno) + off for it, in node and in
\* data segments, for BG and FG.
C2_CopyOnlyLiveBlock == Copied => last_copy.valid /\ last_copy.at_slot

Inside(t) == th[t].pc \notin {"idle", "ret"}

\* C5: at any time at most one thread, the background worker or a
\* foreground caller, is executing inside f2fs_gc.
C5_OneThreadInside ==
    \A t1 \in Threads, t2 \in Threads : Inside(t1) /\ Inside(t2) => t1 = t2

Listed(n, ilist) == Cardinality({k \in 1 .. Len(ilist) : ilist[k] = n})

\* C6: within a call every inode reference got by f2fs_iget_nowait and not
\* yet put is the one of an entry of ilist, no inode is listed twice, and
\* when the call has returned ilist is empty and every reference it got has
\* been put once.
C6_InodesReleased ==
    \A t \in Threads :
        /\ \A n \in Inos : th[t].held[n] = Listed(n, th[t].ilist)
                            /\ Listed(n, th[t].ilist) <= 1
        /\ th[t].pc = "ret" =>
               th[t].ilist = <<>> /\ \A n \in Inos : th[t].held[n] = 0

C6_Witness ==
    \E t \in Threads :
        /\ th[t].pc = "ret" /\ th[t].dup
        /\ th[t].gc_status \in {"GC_BLOCKED", "GC_ERROR"}

\* C7: when an evacuator has returned GC_BLOCKED the thread holds cp_mutex,
\* taken once, and is at the stop label, so it evacuates nothing more;
\* write_checkpoint is called with is_blocked = true once for it before the
\* retry or the return, and GC holds cp_mutex at no other time.
C7_BlockedCheckpointed ==
    \A t \in Threads :
        /\ th[t].blocked = "pending" =>
               th[t].pc = "stop" /\ th[t].gc_status = "GC_BLOCKED" /\ cp_mutex = t
        /\ cp_mutex = t => th[t].blocked = "pending"
        /\ th[t].blocked # "twice"
        /\ th[t].gc_status = "GC_BLOCKED" /\ th[t].pc # "stop" =>
               th[t].blocked = "written"

C7_Witness ==
    \E t \in Threads :
        th[t].pc = "gc_more" /\ th[t].blocked = "written" /\ th[t].nfree > 0

\* C8: when an evacuator returned GC_BLOCKED in the middle of a victim
\* section and f2fs_gc retries after write_checkpoint, the next get_victim
\* returns the section that was being evacuated.
C8_ReselectedAfterBlocked ==
    \A t \in Threads : th[t].after_unclean \notin {"other", "no_victim"}

\* C9 as stated, for sections of one segment: a pass of the victim loop of
\* f2fs_gc(nGC = 0) evacuates a segment not evacuated before in that call.
C9_EveryPassNewSegment ==
    \A t \in Threads :
        segs_per_sec = 1 /\ th[t].nGC = 0 /\ Inside(t) => ~th[t].repeat

\* the measure of the passes a call has left
Rank(t) ==
    LET bg == Cardinality(victim_segmap["BG_GC"])
        fg == Cardinality(victim_segmap["FG_GC"])
    IN bg + (TOTAL_SEGS - fg)
       + (IF th[t].gc_type = "BG_GC" THEN 3 * (TOTAL_SEGS - bg) + 1 ELSE 0)

\* C9: every pass of the victim loop that gets a victim sets a bit of
\* victim_segmap[gc_type] that was clear or takes a bit out of
\* victim_segmap[BG_GC], so a measure bounded by the number of segments
\* decreases with every pass and every call makes finitely many passes; the
\* victim of a pass can be a section evacuated before in the call.
C9_PassDecreasesRank ==
    [][\A t \in Threads :
          th[t].pc = "loop" /\ th'[t].pc = "segment" =>
              Rank(t)' < Rank(t) /\ Rank(t)' >= 0]_vars

C9_Witness ==
    \E t \in Threads :
        th[t].nGC = 0 /\ th[t].pc = "segment" /\ th[t].repeat /\ segs_per_sec = 1

\* C10: the success exit of the victim loop is taken only when more than
\* nGC sections have been gained, a section counting once all of its
\* segments returned GC_DONE: more than nGC such sections in this round, or
\* more than nGC as free_sections plus such sections minus old_free.
C10_SuccessGainsSections ==
    \A t \in Threads :
        th[t].exit = "success" =>
            th[t].nGC < th[t].gain \/ th[t].nGC < th[t].secs_done

\* C11: f2fs_gc returns GC_NONE, and leaves it in last_gc_status, only when
\* no do_garbage_collect of the call returned GC_DONE, in the last round or
\* in a round before a gc_more retry.
C11_NoneMeansNothingReclaimed ==
    \A t \in Threads :
        th[t].pc \in {"put", "ret"} /\ th[t].gc_status = "GC_NONE" =>
            ~th[t].reclaimed

Reclaimed(t) ==
    {s \in th[t].entry_dirty : cur_valid_map[s] = {} /\ s \notin dirty_segmap}

\* C15: when f2fs_gc has returned GC_DONE with counter nfree and the writer
\* has written the pages GC dirtied, at least nfree segments that were in
\* dirty_segmap[DIRTY] at entry hold no valid block and are out of
\* dirty_segmap[DIRTY], also when page fetches failed and when FG_GC took a
\* victim from victim_segmap[BG_GC].
C15_DoneSegmentsReclaimed ==
    \A t \in Threads :
        th[t].pc = "ret" /\ th[t].gc_status = "GC_DONE" /\ page_dirty = {} =>
            Cardinality(Reclaimed(t)) >= th[t].nfree

\* C19 as stated: when gc_data_segment has finished for a segment, no inode
\* it pinned is held while the next segment, the next victim section,
\* write_checkpoint or a gc_more retry runs.
C19_PinsReleasedAfterEvacuation ==
    \A t \in Threads :
        th[t].pc \in {"segment", "loop", "stop", "gc_more"} => th[t].ilist = <<>>

\* C19: an entry of ilist is made only in phase 2 of gc_data_segment, entries
\* are released only by put_gc_inode at the end of the f2fs_gc call, all of
\* them, so they stay held over the next segments, victim sections,
\* write_checkpoint and gc_more retries of the call and none is held when
\* the call has returned.
C19_PinsHeldUntilPut ==
    [][\A t \in Threads :
          /\ th'[t].ilist # th[t].ilist =>
                 \/ /\ th[t].pc = "evac" /\ th[t].phase = 2
                    /\ sum_type[th[t].segno + th[t].i] = "SUM_TYPE_DATA"
                    /\ \E n \in Inos : th'[t].ilist = Append(th[t].ilist, n)
                 \/ /\ th[t].pc = "put" /\ th'[t].pc = "ret"
                    /\ th'[t].ilist = <<>>
          /\ th'[t].pc = "ret" => th'[t].ilist = <<>>]_vars

C19_Witness ==
    \E t \in Threads :
        th[t].pc = "gc_more" /\ th[t].ilist # <<>> /\ th[t].blocked = "written"

=============================================================================
